---- MODULE Spec2Model ----
(***************************************************************************)
(* A model of git's object checker, fsck.c: the message catalog, the       *)
(* severity policy of struct fsck_options, report(), the format validators *)
(* and the reachability walker.                                            *)
(*                                                                         *)
(* C strings are sequences of one-character strings addressed by a 1-based *)
(* cursor; the byte 0 is the string "NUL".  A null pointer is "NULL".      *)
(***************************************************************************)
EXTENDS Integers, Sequences, FiniteSets, TLC

VARIABLES
  options,   \* the struct fsck_options under use: msg_type, strict, skiplist, error_func
  arrays,    \* the sha1_array objects: init_skiplist's static one and a caller's
  died,      \* TRUE once die() has ended the process
  op,        \* the last call made and its arguments
  calls,     \* the calls the last operation made to options->error_func, in order
  ret,       \* the value the last operation returned
  walk,      \* fsck_walk in progress: position, callbacks made, res
  overrides  \* history: per kind, the severity of its latest accepted override, or 0

vars == <<options, arrays, died, op, calls, ret, walk, overrides>>

-----------------------------------------------------------------------------
(* Bytes and C strings *)

NUL == "NUL"
LF == "\n"
NULL == "NULL"

Printable ==
  <<
     " ", "!", "\"", "#", "$", "%", "&", "'", "(", ")", "*", "+", ",", "-", ".", "/",
     "0", "1", "2", "3", "4", "5", "6", "7", "8", "9", ":", ";", "<", "=", ">", "?",
     "@", "A", "B", "C", "D", "E", "F", "G", "H", "I", "J", "K", "L", "M", "N", "O",
     "P", "Q", "R", "S", "T", "U", "V", "W", "X", "Y", "Z", "[", "\\", "]", "^", "_",
     "GRAVE", "a", "b", "c", "d", "e", "f", "g", "h", "i", "j", "k", "l", "m", "n", "o",
     "p", "q", "r", "s", "t", "u", "v", "w", "x", "y", "z", "{", "|", "}", "~"
  >>
OrdTable ==
  [c \in {Printable[i] : i \in 1..Len(Printable)} |->
     CHOOSE i \in 1..Len(Printable) : Printable[i] = c]

\* the value of a byte as unsigned char
Ord(c) == IF c = NUL THEN 0 ELSE IF c = LF THEN 10 ELSE 31 + OrdTable[c]

tolower(c) == IF Ord(c) >= 65 /\ Ord(c) <= 90 THEN Printable[Ord(c) + 32 - 31] ELSE c
isdigit(c) == Ord(c) >= 48 /\ Ord(c) <= 57
isspace(c) == Ord(c) = 32 \/ (Ord(c) >= 9 /\ Ord(c) <= 13)

\* *(s + i - 1): past the last byte of a buffer lies its terminating NUL
At(s, i) == IF i >= 1 /\ i <= Len(s) THEN s[i] ELSE NUL

Min(a, b) == IF a < b THEN a ELSE b

\* F applied to the value of x: C evaluates an expression once and names the result
With(x, F(_)) == CHOOSE v \in { F(y) : y \in {x} } : TRUE

RECURSIVE strcspn(_, _, _)
strcspn(s, p, reject) ==
  IF At(s, p) = NUL \/ At(s, p) \in reject THEN 0 ELSE 1 + strcspn(s, p + 1, reject)

\* the C string that starts at cursor p, without its NUL
CStr(s, p) == SubSeq(s, p, p + strcspn(s, p, {}) - 1)

\* skip_prefix(): the cursor after prefix, or 0 when s + p does not start with it
skip_prefix(s, p, prefix) ==
  IF \A i \in 1..Len(prefix) : At(s, p + i - 1) = prefix[i] THEN p + Len(prefix) ELSE 0

-----------------------------------------------------------------------------
(* Object identifiers *)

HexLen == 40
RawSz == 20

HexDigits == <<"0","1","2","3","4","5","6","7","8","9","a","b","c","d","e","f">>

\* hexval(): -1 for a byte that is no hexadecimal digit
hexval(c) ==
  IF isdigit(c) THEN Ord(c) - 48
  ELSE IF Ord(c) >= 97 /\ Ord(c) <= 102 THEN Ord(c) - 87
  ELSE IF Ord(c) >= 65 /\ Ord(c) <= 70 THEN Ord(c) - 55
  ELSE -1

\* get_sha1_hex(): [bad |-> TRUE] or the 20 bytes read from 40 hex digits at s + p
get_sha1_hex(s, p) ==
  IF \E i \in 0..(HexLen - 1) : hexval(At(s, p + i)) < 0
  THEN [bad |-> TRUE, sha1 |-> <<>>]
  ELSE [bad |-> FALSE,
        sha1 |-> [i \in 1..RawSz |->
                    16 * hexval(At(s, p + 2 * i - 2)) + hexval(At(s, p + 2 * i - 1))]]

\* sha1_to_hex()
sha1_to_hex(sha1) ==
  [i \in 1..HexLen |->
     IF i % 2 = 1 THEN HexDigits[(sha1[(i + 1) \div 2] \div 16) + 1]
     ELSE HexDigits[(sha1[i \div 2] % 16) + 1]]

RECURSIVE hashcmp_from(_, _, _)
hashcmp_from(a, b, i) ==
  IF i > RawSz THEN 0
  ELSE IF a[i] # b[i] THEN a[i] - b[i]
  ELSE hashcmp_from(a, b, i + 1)

\* hashcmp(): memcmp over the 20 bytes
hashcmp(a, b) == hashcmp_from(a, b, 1)

-----------------------------------------------------------------------------
(* sha1_array (sha1-array.c) *)

SHA1_ARRAY_INIT == [sha1 |-> <<>>, sorted |-> FALSE]

sha1_array_append(array, sha1) == [sha1 |-> Append(array.sha1, sha1), sorted |-> FALSE]

sha1_array_sort(array) ==
  [sha1 |-> SortSeq(array.sha1, LAMBDA x, y : hashcmp(x, y) < 0), sorted |-> TRUE]

RECURSIVE sha1_pos(_, _, _, _)
sha1_pos(table, sha1, lo, hi) ==
  IF lo >= hi THEN -lo - 1
  ELSE LET mi == (lo + hi) \div 2
           cmp == hashcmp(table[mi + 1], sha1)
       IN IF cmp = 0 THEN mi
          ELSE IF cmp > 0 THEN sha1_pos(table, sha1, lo, mi)
          ELSE sha1_pos(table, sha1, mi + 1, hi)

\* sha1_array_lookup(): sorts an array not marked sorted, then searches it
sha1_array_lookup(array, sha1) ==
  LET a == IF array.sorted THEN array ELSE sha1_array_sort(array)
  IN [array |-> a, pos |-> sha1_pos(a.sha1, sha1, 0, Len(a.sha1))]

-----------------------------------------------------------------------------
(* The message catalog *)

FSCK_FATAL == -1
FSCK_INFO == -2
FSCK_ERROR == 1
FSCK_WARN == 2
FSCK_IGNORE == 3

msg_id_info ==
  << [name |-> "NUL_IN_HEADER", msg_type |-> FSCK_FATAL,
      id_string |-> <<"N","U","L","_","I","N","_","H","E","A","D","E","R">>],
     [name |-> "UNTERMINATED_HEADER", msg_type |-> FSCK_FATAL,
      id_string |-> <<"U","N","T","E","R","M","I","N","A","T","E","D","_","H","E","A","D","E","R">>],
     [name |-> "BAD_DATE", msg_type |-> FSCK_ERROR,
      id_string |-> <<"B","A","D","_","D","A","T","E">>],
     [name |-> "BAD_DATE_OVERFLOW", msg_type |-> FSCK_ERROR,
      id_string |-> <<"B","A","D","_","D","A","T","E","_","O","V","E","R","F","L","O","W">>],
     [name |-> "BAD_EMAIL", msg_type |-> FSCK_ERROR,
      id_string |-> <<"B","A","D","_","E","M","A","I","L">>],
     [name |-> "BAD_NAME", msg_type |-> FSCK_ERROR,
      id_string |-> <<"B","A","D","_","N","A","M","E">>],
     [name |-> "BAD_OBJECT_SHA1", msg_type |-> FSCK_ERROR,
      id_string |-> <<"B","A","D","_","O","B","J","E","C","T","_","S","H","A","1">>],
     [name |-> "BAD_PARENT_SHA1", msg_type |-> FSCK_ERROR,
      id_string |-> <<"B","A","D","_","P","A","R","E","N","T","_","S","H","A","1">>],
     [name |-> "BAD_TAG_OBJECT", msg_type |-> FSCK_ERROR,
      id_string |-> <<"B","A","D","_","T","A","G","_","O","B","J","E","C","T">>],
     [name |-> "BAD_TIMEZONE", msg_type |-> FSCK_ERROR,
      id_string |-> <<"B","A","D","_","T","I","M","E","Z","O","N","E">>],
     [name |-> "BAD_TREE", msg_type |-> FSCK_ERROR,
      id_string |-> <<"B","A","D","_","T","R","E","E">>],
     [name |-> "BAD_TREE_SHA1", msg_type |-> FSCK_ERROR,
      id_string |-> <<"B","A","D","_","T","R","E","E","_","S","H","A","1">>],
     [name |-> "BAD_TYPE", msg_type |-> FSCK_ERROR,
      id_string |-> <<"B","A","D","_","T","Y","P","E">>],
     [name |-> "DUPLICATE_ENTRIES", msg_type |-> FSCK_ERROR,
      id_string |-> <<"D","U","P","L","I","C","A","T","E","_","E","N","T","R","I","E","S">>],
     [name |-> "MISSING_AUTHOR", msg_type |-> FSCK_ERROR,
      id_string |-> <<"M","I","S","S","I","N","G","_","A","U","T","H","O","R">>],
     [name |-> "MISSING_COMMITTER", msg_type |-> FSCK_ERROR,
      id_string |-> <<"M","I","S","S","I","N","G","_","C","O","M","M","I","T","T","E","R">>],
     [name |-> "MISSING_EMAIL", msg_type |-> FSCK_ERROR,
      id_string |-> <<"M","I","S","S","I","N","G","_","E","M","A","I","L">>],
     [name |-> "MISSING_GRAFT", msg_type |-> FSCK_ERROR,
      id_string |-> <<"M","I","S","S","I","N","G","_","G","R","A","F","T">>],
     [name |-> "MISSING_NAME_BEFORE_EMAIL", msg_type |-> FSCK_ERROR,
      id_string |-> <<"M","I","S","S","I","N","G","_","N","A","M","E","_","B","E","F","O","R","E","_","E","M","A","I","L">>],
     [name |-> "MISSING_OBJECT", msg_type |-> FSCK_ERROR,
      id_string |-> <<"M","I","S","S","I","N","G","_","O","B","J","E","C","T">>],
     [name |-> "MISSING_PARENT", msg_type |-> FSCK_ERROR,
      id_string |-> <<"M","I","S","S","I","N","G","_","P","A","R","E","N","T">>],
     [name |-> "MISSING_SPACE_BEFORE_DATE", msg_type |-> FSCK_ERROR,
      id_string |-> <<"M","I","S","S","I","N","G","_","S","P","A","C","E","_","B","E","F","O","R","E","_","D","A","T","E">>],
     [name |-> "MISSING_SPACE_BEFORE_EMAIL", msg_type |-> FSCK_ERROR,
      id_string |-> <<"M","I","S","S","I","N","G","_","S","P","A","C","E","_","B","E","F","O","R","E","_","E","M","A","I","L">>],
     [name |-> "MISSING_TAG", msg_type |-> FSCK_ERROR,
      id_string |-> <<"M","I","S","S","I","N","G","_","T","A","G">>],
     [name |-> "MISSING_TAG_ENTRY", msg_type |-> FSCK_ERROR,
      id_string |-> <<"M","I","S","S","I","N","G","_","T","A","G","_","E","N","T","R","Y">>],
     [name |-> "MISSING_TAG_OBJECT", msg_type |-> FSCK_ERROR,
      id_string |-> <<"M","I","S","S","I","N","G","_","T","A","G","_","O","B","J","E","C","T">>],
     [name |-> "MISSING_TREE", msg_type |-> FSCK_ERROR,
      id_string |-> <<"M","I","S","S","I","N","G","_","T","R","E","E">>],
     [name |-> "MISSING_TYPE", msg_type |-> FSCK_ERROR,
      id_string |-> <<"M","I","S","S","I","N","G","_","T","Y","P","E">>],
     [name |-> "MISSING_TYPE_ENTRY", msg_type |-> FSCK_ERROR,
      id_string |-> <<"M","I","S","S","I","N","G","_","T","Y","P","E","_","E","N","T","R","Y">>],
     [name |-> "MULTIPLE_AUTHORS", msg_type |-> FSCK_ERROR,
      id_string |-> <<"M","U","L","T","I","P","L","E","_","A","U","T","H","O","R","S">>],
     [name |-> "TAG_OBJECT_NOT_TAG", msg_type |-> FSCK_ERROR,
      id_string |-> <<"T","A","G","_","O","B","J","E","C","T","_","N","O","T","_","T","A","G">>],
     [name |-> "TREE_NOT_SORTED", msg_type |-> FSCK_ERROR,
      id_string |-> <<"T","R","E","E","_","N","O","T","_","S","O","R","T","E","D">>],
     [name |-> "UNKNOWN_TYPE", msg_type |-> FSCK_ERROR,
      id_string |-> <<"U","N","K","N","O","W","N","_","T","Y","P","E">>],
     [name |-> "ZERO_PADDED_DATE", msg_type |-> FSCK_ERROR,
      id_string |-> <<"Z","E","R","O","_","P","A","D","D","E","D","_","D","A","T","E">>],
     [name |-> "BAD_FILEMODE", msg_type |-> FSCK_WARN,
      id_string |-> <<"B","A","D","_","F","I","L","E","M","O","D","E">>],
     [name |-> "EMPTY_NAME", msg_type |-> FSCK_WARN,
      id_string |-> <<"E","M","P","T","Y","_","N","A","M","E">>],
     [name |-> "FULL_PATHNAME", msg_type |-> FSCK_WARN,
      id_string |-> <<"F","U","L","L","_","P","A","T","H","N","A","M","E">>],
     [name |-> "HAS_DOT", msg_type |-> FSCK_WARN,
      id_string |-> <<"H","A","S","_","D","O","T">>],
     [name |-> "HAS_DOTDOT", msg_type |-> FSCK_WARN,
      id_string |-> <<"H","A","S","_","D","O","T","D","O","T">>],
     [name |-> "HAS_DOTGIT", msg_type |-> FSCK_WARN,
      id_string |-> <<"H","A","S","_","D","O","T","G","I","T">>],
     [name |-> "NULL_SHA1", msg_type |-> FSCK_WARN,
      id_string |-> <<"N","U","L","L","_","S","H","A","1">>],
     [name |-> "ZERO_PADDED_FILEMODE", msg_type |-> FSCK_WARN,
      id_string |-> <<"Z","E","R","O","_","P","A","D","D","E","D","_","F","I","L","E","M","O","D","E">>],
     [name |-> "BAD_TAG_NAME", msg_type |-> FSCK_INFO,
      id_string |-> <<"B","A","D","_","T","A","G","_","N","A","M","E">>],
     [name |-> "MISSING_TAGGER_ENTRY", msg_type |-> FSCK_INFO,
      id_string |-> <<"M","I","S","S","I","N","G","_","T","A","G","G","E","R","_","E","N","T","R","Y">>] >>
FSCK_MSG_MAX == Len(msg_id_info)

MsgIds == 0..(FSCK_MSG_MAX - 1)

\* enum fsck_msg_id: FSCK_MSG_<name>
FSCK_MSG(name) == CHOOSE i \in MsgIds : msg_id_info[i + 1].name = name

RECURSIVE downcase(_)
downcase(p) ==
  IF p = <<>> THEN <<>>
  ELSE IF Head(p) = "_" THEN downcase(Tail(p))
  ELSE <<tolower(Head(p))>> \o downcase(Tail(p))

\* the column msg_id_info[i].downcased, which parse_msg_id() fills on its first
\* call: each id_string in lower case without its underscores
Downcased == [i \in MsgIds |-> downcase(msg_id_info[i + 1].id_string)]

downcased(i) == Downcased[i]

parse_msg_id(text) ==
  IF \E i \in MsgIds : text = downcased(i)
  THEN CHOOSE i \in MsgIds : text = downcased(i) /\ \A j \in MsgIds : j < i => text # downcased(j)
  ELSE -1

fsck_msg_type(msg_id, opts) ==
  IF opts.msg_type # <<>> THEN opts.msg_type[msg_id + 1]
  ELSE LET msg_type == msg_id_info[msg_id + 1].msg_type
       IN IF opts.strict /\ msg_type = FSCK_WARN THEN FSCK_ERROR ELSE msg_type

-----------------------------------------------------------------------------
(* Policy: fsck_set_msg_type, init_skiplist, fsck_set_msg_types.  These take  *)
(* and return st = [options, arrays, died]; died is die() having been called. *)

Die(st) == [st EXCEPT !.died = TRUE]

S_error == <<"e","r","r","o","r">>
S_warn == <<"w","a","r","n">>
S_ignore == <<"i","g","n","o","r","e">>
S_skiplist == <<"s","k","i","p","l","i","s","t">>

\* parse_msg_type(): die is TRUE where the code calls die()
parse_msg_type(str) ==
  IF str = S_error THEN [die |-> FALSE, type |-> FSCK_ERROR]
  ELSE IF str = S_warn THEN [die |-> FALSE, type |-> FSCK_WARN]
  ELSE IF str = S_ignore THEN [die |-> FALSE, type |-> FSCK_IGNORE]
  ELSE [die |-> TRUE, type |-> 0]

is_valid_msg_type(msg_id, msg_type) ==
  IF parse_msg_id(msg_id) < 0 THEN [die |-> FALSE, ret |-> 0]
  ELSE [die |-> parse_msg_type(msg_type).die, ret |-> 1]

\* fsck_set_msg_type() without its refusal to demote a fatal kind
fsck_set_msg_type_demoting(st, msg_id, msg_type) ==
  LET id == parse_msg_id(msg_id)
      t == parse_msg_type(msg_type)
      table == IF st.options.msg_type = <<>>
               THEN [i \in 1..FSCK_MSG_MAX |-> fsck_msg_type(i - 1, st.options)]
               ELSE st.options.msg_type
  IN IF id < 0 THEN Die(st)
     ELSE IF t.die THEN Die(st)
     ELSE [st EXCEPT !.options.msg_type = [table EXCEPT ![id + 1] = t.type]]

fsck_set_msg_type(st, msg_id, msg_type) ==
  LET id == parse_msg_id(msg_id)
      t == parse_msg_type(msg_type)
      table == IF st.options.msg_type = <<>>
               THEN [i \in 1..FSCK_MSG_MAX |-> fsck_msg_type(i - 1, st.options)]
               ELSE st.options.msg_type
  IN IF id < 0 THEN Die(st)
     ELSE IF t.die THEN Die(st)
     ELSE IF t.type # FSCK_ERROR /\ msg_id_info[id + 1].msg_type = FSCK_FATAL THEN Die(st)
     ELSE [st EXCEPT !.options.msg_type = [table EXCEPT ![id + 1] = t.type]]

\* the files open() can find, by path; any other path cannot be opened
IdA == [i \in 1..RawSz |-> IF i = RawSz THEN 10 ELSE 0]
IdB == [i \in 1..RawSz |-> IF i = RawSz THEN 11 ELSE 0]
IdC == [i \in 1..RawSz |-> IF i = 1 THEN 1 ELSE 0]

SkipLine(sha1) == sha1_to_hex(sha1) \o <<LF>>

Files ==
  (<<"s">> :> (SkipLine(IdA) \o SkipLine(IdC)))
  @@ (<<"u">> :> (SkipLine(IdC) \o SkipLine(IdA)))
  @@ (<<"t">> :> (SkipLine(IdB) \o <<"1","2","3","4">>))
  @@ (<<"e">> :> <<>>)

BufSz == 41

RECURSIVE read_skiplist(_, _, _, _, _)
\* the for (;;) loop of init_skiplist(): off is the file offset, buffer the
\* 41 bytes left by the previous read, sorted the local of that name
read_skiplist(st, file, off, buffer, sorted) ==
  LET result == Min(BufSz, Len(file) - off + 1)
      buf == [i \in 1..BufSz |-> IF i <= result THEN file[off + i - 1] ELSE buffer[i]]
      hex == get_sha1_hex(buf, 1)
      arr == sha1_array_append(st.arrays.static, hex.sha1)
      nr == Len(arr.sha1)
      sorted2 == IF sorted /\ nr > 1 /\ hashcmp(arr.sha1[nr - 1], hex.sha1) > 0
                 THEN FALSE ELSE sorted
  IN IF result = 0
     THEN (IF sorted THEN [st EXCEPT !.arrays.static.sorted = TRUE] ELSE st)
     ELSE IF hex.bad \/ buf[BufSz] # LF THEN Die(st)
     ELSE read_skiplist([st EXCEPT !.arrays.static = arr], file, off + result, buf, sorted2)

\* init_skiplist(): stack is what the uninitialized local buffer[41] holds
init_skiplist(st, path, stack) ==
  LET sorted == IF st.options.skiplist # NULL
                THEN st.arrays[st.options.skiplist].sorted
                ELSE TRUE
      st1 == IF st.options.skiplist # NULL THEN st
             ELSE [st EXCEPT !.options.skiplist = "static"]
  IN IF path \notin DOMAIN Files THEN Die(st1)
     ELSE read_skiplist(st1, Files[path], 1, stack, sorted)

\* the for loop of fsck_set_msg_types() that lower-cases a token up to its
\* '=' or ':' and returns the index of that byte (0-based, as equal)
RECURSIVE find_equal(_, _, _)
find_equal(tok, equal, len) ==
  IF equal < len /\ tok[equal + 1] # "=" /\ tok[equal + 1] # ":"
  THEN find_equal(tok, equal + 1, len)
  ELSE equal

RECURSIVE fsck_set_msg_types_from(_, _, _, _)
\* the while (!done) loop of fsck_set_msg_types() with buf at cursor p
fsck_set_msg_types_from(st, buf, p, stack) ==
  LET len == strcspn(buf, p, {" ", ",", "|"})
      done == At(buf, p + len) = NUL
      tok == SubSeq(buf, p, p + len - 1)
      equal == find_equal(tok, 0, len)
      key == [i \in 1..equal |-> tolower(tok[i])]
      value == SubSeq(tok, equal + 2, len)
      st2 == IF key = S_skiplist
             THEN (IF equal = len THEN Die(st) ELSE init_skiplist(st, value, stack))
             ELSE (IF equal = len THEN Die(st) ELSE fsck_set_msg_type(st, key, value))
  IN IF len = 0
     THEN (IF done THEN st ELSE fsck_set_msg_types_from(st, buf, p + 1, stack))
     ELSE IF st2.died \/ done THEN st2
     ELSE fsck_set_msg_types_from(st2, buf, p + len + 1, stack)

fsck_set_msg_types(st, values, stack) == fsck_set_msg_types_from(st, CStr(values, 1), 1, stack)

-----------------------------------------------------------------------------
(* The reporter.  A run R = [options, arrays, calls, ret] carries the sink's  *)
(* calls made so far and the value the last function returned.               *)

\* struct object: [null, type, oid, ...]; a null pointer is NoObject
NoObject == [null |-> TRUE]

OBJ_COMMIT == 1
OBJ_TREE == 2
OBJ_BLOB == 3
OBJ_TAG == 4
OBJ_ANY == -2

\* fsck_error_function(), the default sink
fsck_error_function(obj, msg_type, message) == IF msg_type = FSCK_WARN THEN 0 ELSE 1

\* options->error_func: the default sink, or a host's that counts nothing
error_func(name, obj, msg_type, message) ==
  IF name = "fsck_error_function" THEN fsck_error_function(obj, msg_type, message)
  ELSE 0

\* report() consulting the skip set only for what is not an error
report_skipping_warnings(R, object, id) ==
  With(R, LAMBDA R0 :
  With(fsck_msg_type(id, R0.options), LAMBDA msg_type :
    LET skip == R0.options.skiplist
        out == IF msg_type = FSCK_FATAL THEN FSCK_ERROR
               ELSE IF msg_type = FSCK_INFO THEN FSCK_WARN
               ELSE msg_type
        sink(S) == [S EXCEPT !.calls = Append(@, [object |-> object, msg_type |-> out,
                                                  id |-> id]),
                             !.ret = error_func(S.options.error_func, object, out, id)]
    IN IF msg_type = FSCK_IGNORE THEN [R0 EXCEPT !.ret = 0]
       ELSE IF out = FSCK_WARN /\ skip # NULL /\ ~object.null
       THEN With(sha1_array_lookup(R0.arrays[skip], object.oid), LAMBDA look :
              IF look.pos >= 0 THEN [R0 EXCEPT !.arrays[skip] = look.array, !.ret = 0]
              ELSE sink([R0 EXCEPT !.arrays[skip] = look.array]))
       ELSE sink(R0)))

\* the message handed to the sink is identified by the id it is built from;
\* sha1_array_lookup() leaves the skip set sorted
report(R, object, id) ==
  With(R, LAMBDA R0 :
  With(fsck_msg_type(id, R0.options), LAMBDA msg_type :
    LET skip == R0.options.skiplist
        out == IF msg_type = FSCK_FATAL THEN FSCK_ERROR
               ELSE IF msg_type = FSCK_INFO THEN FSCK_WARN
               ELSE msg_type
        sink(S) == [S EXCEPT !.calls = Append(@, [object |-> object, msg_type |-> out,
                                                  id |-> id]),
                             !.ret = error_func(S.options.error_func, object, out, id)]
    IN IF msg_type = FSCK_IGNORE THEN [R0 EXCEPT !.ret = 0]
       ELSE IF skip # NULL /\ ~object.null
       THEN With(sha1_array_lookup(R0.arrays[skip], object.oid), LAMBDA look :
              IF look.pos >= 0 THEN [R0 EXCEPT !.arrays[skip] = look.array, !.ret = 0]
              ELSE sink([R0 EXCEPT !.arrays[skip] = look.array]))
       ELSE sink(R0)))

-----------------------------------------------------------------------------
(* Tree validator *)

S_IFMT == 61440
S_IFREG == 32768
S_IFDIR == 16384
S_IFLNK == 40960
S_IFGITLINK == 57344

\* mode & S_IFMT
FileType(mode) == ((mode \div 4096) % 16) * 4096

S_ISDIR(mode) == FileType(mode) = S_IFDIR
S_ISREG(mode) == FileType(mode) = S_IFREG
S_ISLNK(mode) == FileType(mode) = S_IFLNK
S_ISGITLINK(mode) == FileType(mode) = S_IFGITLINK

RECURSIVE octal(_, _)
octal(str, acc) ==
  IF str = <<>> THEN acc ELSE octal(Tail(str), acc * 8 + (Ord(Head(str)) - 48))

\* get_mode() of tree-walk.c on the octal digits that open a tree entry
get_mode(modetext) == octal(modetext, 0)

TREE_UNORDERED == -1
TREE_HAS_DUPS == -2

RECURSIVE memcmp(_, _, _)
\* memcmp() over the first n bytes: negative, 0 or positive
memcmp(a, b, n) ==
  IF n = 0 THEN 0
  ELSE IF Ord(Head(a)) # Ord(Head(b)) THEN Ord(Head(a)) - Ord(Head(b))
  ELSE memcmp(Tail(a), Tail(b), n - 1)

\* verify_ordered() ordering a directory's name like a file's
verify_ordered_as_files(mode1, name1, mode2, name2) ==
  LET len1 == Len(name1)
      len2 == Len(name2)
      len == IF len1 < len2 THEN len1 ELSE len2
      cmp == memcmp(name1, name2, len)
      c1 == At(name1, len + 1)
      c2 == At(name2, len + 1)
  IN IF cmp < 0 THEN 0
     ELSE IF cmp > 0 THEN TREE_UNORDERED
     ELSE IF c1 = NUL /\ c2 = NUL THEN TREE_HAS_DUPS
     ELSE IF Ord(c1) < Ord(c2) THEN 0 ELSE TREE_UNORDERED

verify_ordered(mode1, name1, mode2, name2) ==
  LET len1 == Len(name1)
      len2 == Len(name2)
      len == IF len1 < len2 THEN len1 ELSE len2
      cmp == memcmp(name1, name2, len)
      c1 == At(name1, len + 1)
      c2 == At(name2, len + 1)
      d1 == IF c1 = NUL /\ S_ISDIR(mode1) THEN "/" ELSE c1
      d2 == IF c2 = NUL /\ S_ISDIR(mode2) THEN "/" ELSE c2
  IN IF cmp < 0 THEN 0
     ELSE IF cmp > 0 THEN TREE_UNORDERED
     ELSE IF c1 = NUL /\ c2 = NUL THEN TREE_HAS_DUPS
     ELSE IF Ord(d1) < Ord(d2) THEN 0 ELSE TREE_UNORDERED

lowercase(s) == [i \in 1..Len(s) |-> tolower(s[i])]

S_dotgit == <<".","g","i","t">>
S_git1 == <<"g","i","t","~","1">>

RECURSIVE rtrim(_)
rtrim(s) ==
  IF s # <<>> /\ s[Len(s)] \in {" ", "."} THEN rtrim(SubSeq(s, 1, Len(s) - 1)) ELSE s

\* is_hfs_dotgit() of utf8.c, on names of ASCII bytes
is_hfs_dotgit(name) == lowercase(name) = S_dotgit

\* is_ntfs_dotgit() of path.c
is_ntfs_dotgit(name) ==
  \E n \in 1..Len(name) :
     /\ lowercase(SubSeq(name, 1, n)) \in {S_dotgit, S_git1}
     /\ rtrim(SubSeq(name, n + 1, Len(name))) = <<>>

NullOid == [i \in 1..RawSz |-> 0]
is_null_oid(oid) == oid = NullOid

NoFlags ==
  [has_null_sha1 |-> FALSE, has_full_path |-> FALSE, has_empty_name |-> FALSE,
   has_dot |-> FALSE, has_dotdot |-> FALSE, has_dotgit |-> FALSE,
   has_zero_pad |-> FALSE, has_bad_modes |-> FALSE, has_dup_entries |-> FALSE,
   not_properly_sorted |-> FALSE]

\* the switch (mode) of fsck_tree(): TRUE where it sets has_bad_modes
bad_mode(mode, strict) ==
  IF mode \in {S_IFREG + 493, S_IFREG + 420, S_IFLNK, S_IFDIR, S_IFGITLINK} THEN FALSE
  ELSE IF mode = S_IFREG + 436 THEN strict
  ELSE TRUE

\* the body of the while (desc.size) loop of fsck_tree() on entry number n
fsck_tree_entry(f, entries, n, strict) ==
  LET e == entries[n]
      mode == get_mode(e.modetext)
      name == e.name
      ord == IF n > 1
             THEN verify_ordered(get_mode(entries[n - 1].modetext), entries[n - 1].name,
                                 mode, name)
             ELSE 0
  IN With(f, LAMBDA f0 :
       [has_null_sha1 |-> f0.has_null_sha1 \/ is_null_oid(e.oid),
        has_full_path |-> f0.has_full_path \/ (\E i \in 1..Len(name) : name[i] = "/"),
        has_empty_name |-> f0.has_empty_name \/ name = <<>>,
        has_dot |-> f0.has_dot \/ name = <<".">>,
        has_dotdot |-> f0.has_dotdot \/ name = <<".", ".">>,
        has_dotgit |-> f0.has_dotgit \/ name = S_dotgit \/ is_hfs_dotgit(name)
                         \/ is_ntfs_dotgit(name),
        has_zero_pad |-> f0.has_zero_pad \/ At(e.modetext, 1) = "0",
        has_bad_modes |-> f0.has_bad_modes \/ bad_mode(mode, strict),
        has_dup_entries |-> f0.has_dup_entries \/ (n > 1 /\ ord = TREE_HAS_DUPS),
        not_properly_sorted |-> f0.not_properly_sorted \/ (n > 1 /\ ord = TREE_UNORDERED)])

RECURSIVE fsck_tree_flags(_, _, _, _)
fsck_tree_flags(f, entries, n, strict) ==
  IF n > Len(entries) THEN f
  ELSE fsck_tree_flags(fsck_tree_entry(f, entries, n, strict), entries, n + 1, strict)

\* retval += report(...) when flag is set
report_if(R, flag, object, id) ==
  With(R, LAMBDA R0 :
    IF flag THEN [report(R0, object, id) EXCEPT !.ret = R0.ret + @] ELSE R0)

fsck_tree(R, item) ==
  With(fsck_tree_flags(NoFlags, item.entries, 1, R.options.strict), LAMBDA f :
    LET r0 == [R EXCEPT !.ret = 0]
        r1 == report_if(r0, f.has_null_sha1, item, FSCK_MSG("NULL_SHA1"))
        r2 == report_if(r1, f.has_full_path, item, FSCK_MSG("FULL_PATHNAME"))
        r3 == report_if(r2, f.has_empty_name, item, FSCK_MSG("EMPTY_NAME"))
        r4 == report_if(r3, f.has_dot, item, FSCK_MSG("HAS_DOT"))
        r5 == report_if(r4, f.has_dotdot, item, FSCK_MSG("HAS_DOTDOT"))
        r6 == report_if(r5, f.has_dotgit, item, FSCK_MSG("HAS_DOTGIT"))
        r7 == report_if(r6, f.has_zero_pad, item, FSCK_MSG("ZERO_PADDED_FILEMODE"))
        r8 == report_if(r7, f.has_bad_modes, item, FSCK_MSG("BAD_FILEMODE"))
        r9 == report_if(r8, f.has_dup_entries, item, FSCK_MSG("DUPLICATE_ENTRIES"))
    IN report_if(r9, f.not_properly_sorted, item, FSCK_MSG("TREE_NOT_SORTED")))

-----------------------------------------------------------------------------
(* Header block and identity line *)

\* the indices i at which the for loop of verify_headers() returns
verify_headers_exits(buffer) ==
  LET size == Len(buffer)
  IN { i \in 0..(size - 1) :
         \/ buffer[i + 1] = NUL
         \/ buffer[i + 1] = LF /\ i + 1 < size /\ buffer[i + 2] = LF }

\* verify_headers() asking for the LF LF pair, with no lenience for a block
\* that ends at the LF of its last line
verify_headers_needing_body(R, buffer, obj) ==
  LET exits == verify_headers_exits(buffer)
      i == CHOOSE i \in exits : \A j \in exits : i <= j
  IN IF exits # {}
     THEN (IF buffer[i + 1] = NUL THEN report(R, obj, FSCK_MSG("NUL_IN_HEADER"))
           ELSE [R EXCEPT !.ret = 0])
     ELSE report(R, obj, FSCK_MSG("UNTERMINATED_HEADER"))

\* the loop returns at the first such index; past the last byte, the
\* terminating LF of the last header line is looked for
verify_headers(R, buffer, obj) ==
  LET size == Len(buffer)
      exits == verify_headers_exits(buffer)
      i == CHOOSE i \in exits : \A j \in exits : i <= j
  IN IF exits # {}
     THEN (IF buffer[i + 1] = NUL THEN report(R, obj, FSCK_MSG("NUL_IN_HEADER"))
           ELSE [R EXCEPT !.ret = 0])
     ELSE IF size > 0 /\ buffer[size] = LF THEN [R EXCEPT !.ret = 0]
     ELSE report(R, obj, FSCK_MSG("UNTERMINATED_HEADER"))

RECURSIVE skip_space(_, _)
skip_space(s, p) == IF isspace(At(s, p)) THEN skip_space(s, p + 1) ELSE p

RECURSIVE skip_digits(_, _)
skip_digits(s, p) == IF isdigit(At(s, p)) THEN skip_digits(s, p + 1) ELSE p

\* strtoul(s + p, &end, 10): white space, an optional sign, decimal digits.
\* The value is kept as its sign and digits; with no digit, end is p.
strtoul(s, p) ==
  LET q == skip_space(s, p)
      neg == At(s, q) = "-"
      d == IF At(s, q) \in {"+", "-"} THEN q + 1 ELSE q
      e == skip_digits(s, d)
  IN IF e = d THEN [end |-> p, neg |-> FALSE, digits |-> <<>>]
     ELSE [end |-> e, neg |-> neg, digits |-> SubSeq(s, d, e - 1)]

RECURSIVE strip_zeros(_)
strip_zeros(d) == IF d # <<>> /\ Head(d) = "0" THEN strip_zeros(Tail(d)) ELSE d

\* a <= b for decimal numerals without leading zeros
DecLE(a, b) ==
  \/ Len(a) < Len(b)
  \/ /\ Len(a) = Len(b)
     /\ \/ a = b
        \/ \E i \in 1..Len(a) :
              /\ Ord(a[i]) < Ord(b[i])
              /\ \A j \in 1..(i - 1) : a[j] = b[j]

LONG_MAX == <<"9","2","2","3","3","7","2","0","3","6","8","5","4","7","7","5","8","0","7">>
LONG_MIN_ABS == <<"9","2","2","3","3","7","2","0","3","6","8","5","4","7","7","5","8","0","8">>
ULONG_MAX == <<"1","8","4","4","6","7","4","4","0","7","3","7","0","9","5","5","1","6","1","5">>

\* date_overflows() of date.c on strtoul's value: the value is ULONG_MAX (to
\* which strtoul clamps) or does not fit a signed 64-bit time_t
date_overflows(t) ==
  LET v == strip_zeros(t.digits)
  IN IF v = <<>> THEN FALSE
     ELSE IF ~DecLE(v, ULONG_MAX) THEN TRUE
     ELSE IF t.neg THEN DecLE(v, LONG_MIN_ABS)
     ELSE ~DecLE(v, LONG_MAX)

\* fsck_ident(): ident is the cursor *ident on return
fsck_ident(R, s, ident, obj) ==
  LET nl == ident + strcspn(s, ident, {LF})
      next == IF At(s, nl) = LF THEN nl + 1 ELSE nl
      p0 == ident
      p1 == p0 + strcspn(s, p0, {"<", ">", LF})
      p2 == p1 + 1
      p3 == p2 + strcspn(s, p2, {"<", ">", LF})
      p4 == p3 + 1
      p5 == p4 + 1
      t == strtoul(s, p5)
      p6 == t.end + 1
      rep(id) == [R |-> report(R, obj, FSCK_MSG(id)), ident |-> next]
  IN IF At(s, p0) = "<" THEN rep("MISSING_NAME_BEFORE_EMAIL")
     ELSE IF At(s, p1) = ">" THEN rep("BAD_NAME")
     ELSE IF At(s, p1) # "<" THEN rep("MISSING_EMAIL")
     ELSE IF At(s, p1 - 1) # " " THEN rep("MISSING_SPACE_BEFORE_EMAIL")
     ELSE IF At(s, p3) # ">" THEN rep("BAD_EMAIL")
     ELSE IF At(s, p4) # " " THEN rep("MISSING_SPACE_BEFORE_DATE")
     ELSE IF At(s, p5) = "0" /\ At(s, p5 + 1) # " " THEN rep("ZERO_PADDED_DATE")
     ELSE IF date_overflows(t) THEN rep("BAD_DATE_OVERFLOW")
     ELSE IF t.end = p5 \/ At(s, t.end) # " " THEN rep("BAD_DATE")
     ELSE IF \/ (At(s, p6) # "+" /\ At(s, p6) # "-")
             \/ ~isdigit(At(s, p6 + 1))
             \/ ~isdigit(At(s, p6 + 2))
             \/ ~isdigit(At(s, p6 + 3))
             \/ ~isdigit(At(s, p6 + 4))
             \/ At(s, p6 + 5) # LF
     THEN rep("BAD_TIMEZONE")
     ELSE [R |-> [R EXCEPT !.ret = 0], ident |-> next]

-----------------------------------------------------------------------------
(* Commit and tag validators *)

S_tree == <<"t","r","e","e"," ">>
S_parent == <<"p","a","r","e","n","t"," ">>
S_author == <<"a","u","t","h","o","r"," ">>
S_committer == <<"c","o","m","m","i","t","t","e","r"," ">>
S_object == <<"o","b","j","e","c","t"," ">>
S_type == <<"t","y","p","e"," ">>
S_tag == <<"t","a","g"," ">>
S_tagger == <<"t","a","g","g","e","r"," ">>

\* get_sha1_hex(buffer, sha1) || buffer[40] != '\n'
bad_sha1_line(s, p) == get_sha1_hex(s, p).bad \/ At(s, p + HexLen) # LF

RECURSIVE commit_parent_lines(_, _, _, _, _)
\* the while (skip_prefix(buffer, "parent ", &buffer)) loop; stop is an early return
commit_parent_lines(R, commit, s, p, n) ==
  LET q == skip_prefix(s, p, S_parent)
  IN IF q = 0 THEN [R |-> R, p |-> p, n |-> n, stop |-> FALSE]
     ELSE IF bad_sha1_line(s, q)
     THEN With(report(R, commit, FSCK_MSG("BAD_PARENT_SHA1")), LAMBDA r :
            IF r.ret # 0 THEN [R |-> r, p |-> q, n |-> n, stop |-> TRUE]
            ELSE commit_parent_lines(r, commit, s, q + HexLen + 1, n + 1))
     ELSE commit_parent_lines(R, commit, s, q + HexLen + 1, n + 1)

RECURSIVE commit_author_lines(_, _, _, _, _)
\* the while (skip_prefix(buffer, "author ", &buffer)) loop
commit_author_lines(R, commit, s, p, n) ==
  LET q == skip_prefix(s, p, S_author)
  IN IF q = 0 THEN [R |-> R, p |-> p, n |-> n, stop |-> FALSE]
     ELSE With(fsck_ident(R, s, q, commit), LAMBDA i :
            IF i.R.ret # 0 THEN [R |-> i.R, p |-> i.ident, n |-> n + 1, stop |-> TRUE]
            ELSE commit_author_lines(i.R, commit, s, i.ident, n + 1))

\* fsck_commit_buffer() from the committer line on
commit_committer(R, commit, s, p) ==
  LET q == skip_prefix(s, p, S_committer)
  IN IF q = 0 THEN report(R, commit, FSCK_MSG("MISSING_COMMITTER"))
     ELSE With(fsck_ident(R, s, q, commit), LAMBDA i :
            IF i.R.ret # 0 THEN i.R
            ELSE IF commit.tree_null THEN report(i.R, commit, FSCK_MSG("BAD_TREE"))
            ELSE [i.R EXCEPT !.ret = 0])

\* fsck_commit_buffer() from the author lines on, not asking for an author
commit_authors_optional(R, commit, s, p) ==
  With(commit_author_lines(R, commit, s, p, 0), LAMBDA a :
    IF a.stop THEN a.R
    ELSE With(IF a.n > 1 THEN report(a.R, commit, FSCK_MSG("MULTIPLE_AUTHORS"))
              ELSE a.R, LAMBDA r :
           IF r.ret # 0 THEN r
           ELSE commit_committer(r, commit, s, a.p)))

\* fsck_commit_buffer() from the author lines on
commit_authors(R, commit, s, p) ==
  With(commit_author_lines(R, commit, s, p, 0), LAMBDA a :
    IF a.stop THEN a.R
    ELSE With(IF a.n < 1 THEN report(a.R, commit, FSCK_MSG("MISSING_AUTHOR"))
              ELSE IF a.n > 1 THEN report(a.R, commit, FSCK_MSG("MULTIPLE_AUTHORS"))
              ELSE a.R, LAMBDA r :
           IF r.ret # 0 THEN r
           ELSE commit_committer(r, commit, s, a.p)))

\* fsck_commit_buffer() from the graft lookup on; lines is parent_line_count
commit_graft(R, commit, s, p, lines) ==
  LET graft == commit.graft
      parent_count == Len(commit.parents)
      id == IF graft # <<>>
            THEN (IF graft[1] = -1 /\ parent_count = 0 THEN -1
                  ELSE IF graft[1] # parent_count THEN FSCK_MSG("MISSING_GRAFT")
                  ELSE -1)
            ELSE (IF parent_count # lines THEN FSCK_MSG("MISSING_PARENT") ELSE -1)
  IN With(IF id >= 0 THEN report(R, commit, id) ELSE [R EXCEPT !.ret = 0], LAMBDA r :
       IF r.ret # 0 THEN r
       ELSE commit_authors(r, commit, s, p))

\* fsck_commit_buffer() from the parent lines on
commit_parents(R, commit, buffer, p) ==
  With(commit_parent_lines(R, commit, buffer, p, 0), LAMBDA pl :
    IF pl.stop THEN pl.R
    ELSE commit_graft(pl.R, commit, buffer, pl.p, pl.n))

fsck_commit_buffer(R, commit, buffer) ==
  With(verify_headers(R, buffer, commit), LAMBDA h :
    LET b == skip_prefix(buffer, 1, S_tree)
    IN IF h.ret # 0 THEN [h EXCEPT !.ret = -1]
       ELSE IF b = 0 THEN report(h, commit, FSCK_MSG("MISSING_TREE"))
       ELSE IF bad_sha1_line(buffer, b)
       THEN With(report(h, commit, FSCK_MSG("BAD_TREE_SHA1")), LAMBDA r :
              IF r.ret # 0 THEN r
              ELSE commit_parents(r, commit, buffer, b + HexLen + 1))
       ELSE commit_parents(h, commit, buffer, b + HexLen + 1))

\* data is [null |-> TRUE] or [null |-> FALSE, buf |-> bytes]; get_commit_buffer()
\* gives the commit's stored bytes
fsck_commit(R, commit, data) ==
  fsck_commit_buffer(R, commit, IF data.null THEN commit.buffer ELSE data.buf)

\* type_from_string_gently() of object.c: negative for no object type's name
type_from_string_gently(str) ==
  IF str = <<"c","o","m","m","i","t">> THEN OBJ_COMMIT
  ELSE IF str = <<"t","r","e","e">> THEN OBJ_TREE
  ELSE IF str = <<"b","l","o","b">> THEN OBJ_BLOB
  ELSE IF str = <<"t","a","g">> THEN OBJ_TAG
  ELSE -1

\* check_refname_format("refs/tags/<name>", 0) of refs.c: 0 iff valid
check_refname_format(name) ==
  IF \/ name = <<>>
     \/ Head(name) \in {".", "/"}
     \/ name[Len(name)] \in {".", "/"}
     \/ \E i \in 1..Len(name) : name[i] \in {" ", "~", "^", ":", "?", "*", "[", "\\"}
     \/ \E i \in 1..(Len(name) - 1) :
           <<name[i], name[i + 1]>> \in {<<".", ".">>, <<"/", "/">>, <<"/", ".">>, <<"@", "{">>}
  THEN -1 ELSE 0

\* strchr(s + p, '\n'): the cursor of the first LF, or 0 for NULL
strchr_lf(s, p) ==
  LET q == p + strcspn(s, p, {LF}) IN IF At(s, q) = LF THEN q ELSE 0

\* fsck_tag_buffer() from the tagger line on
tag_tagger(R, tag, s, p) ==
  LET q == skip_prefix(s, p, S_tagger)
  IN IF q = 0 THEN report(R, tag, FSCK_MSG("MISSING_TAGGER_ENTRY"))
     ELSE fsck_ident(R, s, q, tag).R

\* fsck_tag_buffer() from the tag line on
tag_name(R, tag, s, p) ==
  LET q == skip_prefix(s, p, S_tag)
      eol == strchr_lf(s, q)
  IN IF q = 0 THEN report(R, tag, FSCK_MSG("MISSING_TAG_ENTRY"))
     ELSE IF eol = 0 THEN report(R, tag, FSCK_MSG("MISSING_TAG"))
     ELSE IF check_refname_format(SubSeq(s, q, eol - 1)) # 0
     THEN With(report(R, tag, FSCK_MSG("BAD_TAG_NAME")), LAMBDA r :
            IF r.ret # 0 THEN r
            ELSE tag_tagger(r, tag, s, eol + 1))
     ELSE tag_tagger([R EXCEPT !.ret = 0], tag, s, eol + 1)

\* fsck_tag_buffer() from the type line on; R.ret is ret
tag_type(R, tag, s, p) ==
  LET q == skip_prefix(s, p, S_type)
      eol == strchr_lf(s, q)
  IN IF q = 0 THEN report(R, tag, FSCK_MSG("MISSING_TYPE_ENTRY"))
     ELSE IF eol = 0 THEN report(R, tag, FSCK_MSG("MISSING_TYPE"))
     ELSE With(IF type_from_string_gently(SubSeq(s, q, eol - 1)) < 0
               THEN report(R, tag, FSCK_MSG("BAD_TYPE")) ELSE R, LAMBDA r :
            IF r.ret # 0 THEN r
            ELSE tag_name(r, tag, s, eol + 1))

\* fsck_tag_buffer() once buffer is set
tag_headers(R, tag, buffer) ==
  With(verify_headers(R, buffer, tag), LAMBDA h :
    LET b == skip_prefix(buffer, 1, S_object)
    IN IF h.ret # 0 THEN h
       ELSE IF b = 0 THEN report(h, tag, FSCK_MSG("MISSING_OBJECT"))
       ELSE IF bad_sha1_line(buffer, b)
       THEN With(report(h, tag, FSCK_MSG("BAD_OBJECT_SHA1")), LAMBDA r :
              IF r.ret # 0 THEN r
              ELSE tag_type([r EXCEPT !.ret = 0], tag, buffer, b + HexLen + 1))
       ELSE tag_type([h EXCEPT !.ret = 0], tag, buffer, b + HexLen + 1))

\* read_sha1_file() gives tag.stored = [null, type, buf], what the object
\* store holds under the tag's identifier
fsck_tag_buffer(R, tag, data) ==
  IF ~data.null THEN tag_headers([R EXCEPT !.ret = 0], tag, data.buf)
  ELSE IF tag.stored.null THEN report(R, tag, FSCK_MSG("MISSING_TAG_OBJECT"))
  ELSE IF tag.stored.type # OBJ_TAG THEN report(R, tag, FSCK_MSG("TAG_OBJECT_NOT_TAG"))
  ELSE tag_headers([R EXCEPT !.ret = 0], tag, tag.stored.buf)

fsck_tag(R, tag, data) ==
  IF tag.tagged_null THEN report(R, tag, FSCK_MSG("BAD_TAG_OBJECT"))
  ELSE fsck_tag_buffer(R, tag, data)

fsck_object(R, obj, data) ==
  IF obj.null THEN report(R, obj, FSCK_MSG("BAD_OBJECT_SHA1"))
  ELSE IF obj.type = OBJ_BLOB THEN [R EXCEPT !.ret = 0]
  ELSE IF obj.type = OBJ_TREE THEN fsck_tree(R, obj)
  ELSE IF obj.type = OBJ_COMMIT THEN fsck_commit(R, obj, data)
  ELSE IF obj.type = OBJ_TAG THEN fsck_tag(R, obj, data)
  ELSE report(R, obj, FSCK_MSG("UNKNOWN_TYPE"))

-----------------------------------------------------------------------------
(* Reachability walker.  options->walk is the host's callback: what it      *)
(* returns is the host's choice, so each step takes it as the argument r.   *)
(* W = [pc, i, res, log]: i counts the loop iterations done, log holds the  *)
(* callback's invocations [child, type, result] so far and errs counts the  *)
(* messages printed by error(); pc = "done" with R the value returned.      *)

\* error() of usage.c prints the message and returns -1
error(msg) == -1

WalkIdle == [pc |-> "idle", i |-> 0, res |-> 0, log |-> <<>>, errs |-> 0, R |-> 0]

Returned(W, value) == [W EXCEPT !.pc = "done", !.R = value]

Invoked(W, child, type, r) ==
  [W EXCEPT !.log = Append(@, [child |-> child, type |-> type, result |-> r])]

\* fsck_walk() up to the first callback: the dispatch on obj->type and the
\* parse_tree(), parse_commit() or parse_tag() that opens each case
fsck_walk(obj) ==
  IF obj.null THEN Returned(WalkIdle, -1)
  ELSE IF obj.type = OBJ_BLOB THEN Returned(WalkIdle, 0)
  ELSE IF obj.type \in {OBJ_TREE, OBJ_COMMIT, OBJ_TAG}
  THEN (IF ~obj.parsed THEN Returned(WalkIdle, -1)
        ELSE [WalkIdle EXCEPT !.pc = IF obj.type = OBJ_TREE THEN "tree"
                                      ELSE IF obj.type = OBJ_COMMIT THEN "commit"
                                      ELSE "tag"])
  ELSE Returned([WalkIdle EXCEPT !.errs = 1], -1)

\* fsck_walk_tree() going on to the next entry after error() on a bad mode
fsck_walk_tree_step_lenient(W, tree, r) ==
  LET entry == tree.entries[W.i + 1]
      mode == get_mode(entry.modetext)
      called == S_ISDIR(mode) \/ S_ISREG(mode) \/ S_ISLNK(mode)
      W1 == IF called
            THEN Invoked(W, entry.oid, IF S_ISDIR(mode) THEN OBJ_TREE ELSE OBJ_BLOB, r)
            ELSE [W EXCEPT !.errs = @ + 1]
  IN IF W.i >= Len(tree.entries) THEN Returned(W, W.res)
     ELSE IF S_ISGITLINK(mode) THEN [W EXCEPT !.i = @ + 1]
     ELSE IF ~called THEN [W1 EXCEPT !.i = @ + 1]
     ELSE IF r < 0 THEN Returned(W1, r)
     ELSE [W1 EXCEPT !.i = @ + 1, !.res = IF W.res = 0 THEN r ELSE @]

\* one iteration of the while (tree_entry(&desc, &entry)) loop of
\* fsck_walk_tree(), or its return res once the entries are exhausted
fsck_walk_tree_step(W, tree, r) ==
  LET entry == tree.entries[W.i + 1]
      mode == get_mode(entry.modetext)
      called == S_ISDIR(mode) \/ S_ISREG(mode) \/ S_ISLNK(mode)
      result == IF called THEN r ELSE error("bad mode")
      W1 == IF called
            THEN Invoked(W, entry.oid, IF S_ISDIR(mode) THEN OBJ_TREE ELSE OBJ_BLOB, r)
            ELSE [W EXCEPT !.errs = @ + 1]
  IN IF W.i >= Len(tree.entries) THEN Returned(W, W.res)
     ELSE IF S_ISGITLINK(mode) THEN [W EXCEPT !.i = @ + 1]
     ELSE IF result < 0 THEN Returned(W1, result)
     ELSE [W1 EXCEPT !.i = @ + 1, !.res = IF W.res = 0 THEN result ELSE @]

\* fsck_walk_commit() keeping the latest non-zero result instead of the first
fsck_walk_commit_step_latest(W, commit, r) ==
  LET W1 == IF W.i = 0 THEN Invoked(W, commit.tree, OBJ_TREE, r)
            ELSE Invoked(W, commit.parents[W.i], OBJ_COMMIT, r)
  IN IF W.i > Len(commit.parents) THEN Returned(W, W.res)
     ELSE IF r < 0 THEN Returned(W1, r)
     ELSE IF W.i = 0 THEN [W1 EXCEPT !.i = 1, !.res = r]
     ELSE [W1 EXCEPT !.i = @ + 1, !.res = IF r # 0 THEN r ELSE @]

\* fsck_walk_commit(): the callback on commit->tree (W.i = 0), then one
\* iteration of the while (parents) loop, or the return res after the last
fsck_walk_commit_step(W, commit, r) ==
  LET W1 == IF W.i = 0 THEN Invoked(W, commit.tree, OBJ_TREE, r)
            ELSE Invoked(W, commit.parents[W.i], OBJ_COMMIT, r)
  IN IF W.i > Len(commit.parents) THEN Returned(W, W.res)
     ELSE IF r < 0 THEN Returned(W1, r)
     ELSE IF W.i = 0 THEN [W1 EXCEPT !.i = 1, !.res = r]
     ELSE [W1 EXCEPT !.i = @ + 1, !.res = IF W.res = 0 THEN r ELSE @]

\* fsck_walk_tag() after parse_tag()
fsck_walk_tag_step(W, tag, r) == Returned(Invoked(W, tag.tagged, OBJ_ANY, r), r)

-----------------------------------------------------------------------------
(* The host program: one options value, configured and used call by call.   *)
(* A call leaves its name and arguments in op, the sink's calls in calls    *)
(* and its return value in ret; the caller then takes the result.           *)

Idle == [name |-> "idle"]

\* FSCK_OPTIONS_DEFAULT and FSCK_OPTIONS_STRICT, with the caller's skip set
FsckOptions(strict, skiplist, sink) ==
  [msg_type |-> <<>>, strict |-> strict, skiplist |-> skiplist, error_func |-> sink]

\* a skip set a caller built by appending, not yet sorted
CallerSet == sha1_array_append(sha1_array_append(SHA1_ARRAY_INIT, IdC), IdA)

NoOverrides == [i \in MsgIds |-> 0]

St == [options |-> options, arrays |-> arrays, died |-> died]
Run == [options |-> options, arrays |-> arrays, calls |-> <<>>, ret |-> 0]

NoData == [null |-> TRUE]
Data(buf) == [null |-> FALSE, buf |-> buf]

Blob(oid) == [null |-> FALSE, type |-> OBJ_BLOB, oid |-> oid]
Tree(oid, entries) ==
  [null |-> FALSE, type |-> OBJ_TREE, oid |-> oid, parsed |-> TRUE, entries |-> entries]
Commit(oid, tree_null, parents, graft, buffer) ==
  [null |-> FALSE, type |-> OBJ_COMMIT, oid |-> oid, parsed |-> TRUE,
   tree_null |-> tree_null, tree |-> IF tree_null THEN NullOid ELSE IdC,
   parents |-> parents, graft |-> graft, buffer |-> buffer]
Tag(oid, tagged_null, stored) ==
  [null |-> FALSE, type |-> OBJ_TAG, oid |-> oid, parsed |-> TRUE,
   tagged_null |-> tagged_null, tagged |-> IF tagged_null THEN NullOid ELSE IdC,
   stored |-> stored]

Entry(modetext, name, oid) == [modetext |-> modetext, name |-> name, oid |-> oid]

M_dir == <<"4","0","0","0","0">>
M_644 == <<"1","0","0","6","4","4">>
M_664 == <<"1","0","0","6","6","4">>
M_lnk == <<"1","2","0","0","0","0">>
M_gitlink == <<"1","6","0","0","0","0">>
M_blk == <<"6","0","0","0","0">>

\* an identity line without its "author " prefix, and the lines of a commit
Ident(name, email, date, tz) ==
  name \o <<" ", "<">> \o email \o <<">", " ">> \o date \o <<" ">> \o tz \o <<LF>>

GoodIdent == Ident(<<"A">>, <<"a","@","x">>, <<"1","2">>, <<"+","0","0","0","0">>)

TreeLine(oid) == S_tree \o sha1_to_hex(oid) \o <<LF>>
ParentLine(oid) == S_parent \o sha1_to_hex(oid) \o <<LF>>

\* a tag's bytes with object, type and tag lines and no tagger line
TagNoTagger ==
  S_object \o sha1_to_hex(IdC) \o <<LF>>
  \o S_type \o <<"c","o","m","m","i","t",LF>>
  \o S_tag \o <<"v","1",LF>>
  \o <<LF, "m", LF>>

CommitNoAuthor == TreeLine(IdC) \o S_committer \o GoodIdent \o <<LF>>

\* the objects the host checks; each under an identifier that CallerSet
\* holds (IdA) and under one it does not (IdB)
CheckedObjects ==
  {NoObject}
  \cup UNION {
    { Blob(oid),
      Tree(oid, <<Entry(M_664, <<"a">>, IdC)>>),
      Tree(oid, <<Entry(M_dir, S_dotgit, IdC)>>),
      Tag(oid, FALSE, [null |-> FALSE, type |-> OBJ_TAG, buf |-> TagNoTagger]),
      Commit(oid, FALSE, <<>>, <<>>, CommitNoAuthor) } : oid \in {IdA, IdB} }

\* the names fsck_set_msg_type() is called with
KindTexts ==
  { downcased(FSCK_MSG("NUL_IN_HEADER")), downcased(FSCK_MSG("UNTERMINATED_HEADER")),
    downcased(FSCK_MSG("BAD_FILEMODE")), downcased(FSCK_MSG("MISSING_TAGGER_ENTRY")),
    <<"n","o","n","e">> }
TypeTexts == { S_error, S_warn, S_ignore, <<"f","a","t","a","l">> }

InitCommon ==
  /\ arrays = [static |-> SHA1_ARRAY_INIT, caller |-> CallerSet]
  /\ died = FALSE
  /\ op = Idle
  /\ calls = <<>>
  /\ ret = 0
  /\ walk = WalkIdle

Init ==
  /\ \E strict \in BOOLEAN, skiplist \in {NULL, "caller"} :
        options = FsckOptions(strict, skiplist, "fsck_error_function")
  /\ overrides = NoOverrides
  /\ InitCommon

Ready == ~died /\ op.name = "idle"

\* the host assigns options->strict
SetStrict ==
  /\ Ready
  /\ options' = [options EXCEPT !.strict = ~options.strict]
  /\ op' = [name |-> "strict"]
  /\ UNCHANGED <<arrays, died, calls, ret, walk, overrides>>

SetMsgType ==
  /\ Ready
  /\ \E msg_id \in KindTexts, msg_type \in TypeTexts :
        LET st == fsck_set_msg_type(St, msg_id, msg_type)
        IN /\ options' = st.options
           /\ arrays' = st.arrays
           /\ died' = st.died
           /\ overrides' = IF st.died THEN overrides
                           ELSE [overrides EXCEPT ![parse_msg_id(msg_id)] =
                                   parse_msg_type(msg_type).type]
           /\ op' = [name |-> "fsck_set_msg_type", msg_id |-> msg_id, msg_type |-> msg_type]
  /\ UNCHANGED <<calls, ret, walk>>

Finish(R) ==
  /\ options' = R.options
  /\ arrays' = R.arrays
  /\ calls' = R.calls
  /\ ret' = R.ret

Report ==
  /\ Ready
  /\ \E object \in {NoObject, Blob(IdA), Blob(IdB)}, id \in MsgIds :
        /\ Finish(report(Run, object, id))
        /\ op' = [name |-> "report", object |-> object, id |-> id]
  /\ UNCHANGED <<died, walk, overrides>>

FsckObject ==
  /\ Ready
  /\ \E obj \in CheckedObjects :
        /\ Finish(fsck_object(Run, obj, NoData))
        /\ op' = [name |-> "fsck_object", object |-> obj]
  /\ UNCHANGED <<died, walk, overrides>>

\* the caller takes the result of the call
Return ==
  /\ ~died
  /\ op.name # "idle"
  /\ op' = Idle
  /\ calls' = <<>>
  /\ ret' = 0
  /\ UNCHANGED <<options, arrays, died, walk, overrides>>

Next == SetStrict \/ SetMsgType \/ Report \/ FsckObject \/ Return

Spec == Init /\ [][Next]_vars

-----------------------------------------------------------------------------
(* Properties of the policy and the reporter, under Spec *)

DefaultType(id) == msg_id_info[id + 1].msg_type

\* the membership test report() makes on the options' skip set
InSkipSet(object) ==
  /\ options.skiplist # NULL
  /\ ~object.null
  /\ sha1_array_lookup(arrays[options.skiplist], object.oid).pos >= 0

\* C1: for an object whose identifier is in the options' skip set, whatever the
\* diagnostic kind and the severity policy, report() makes no call to the sink
\* and returns 0, and fsck_object() on such an object makes no call to the sink.
C1_SkippedObjectIsSilent ==
  (op.name \in {"report", "fsck_object"} /\ InSkipSet(op.object))
    => (calls = <<>> /\ (op.name = "report" => ret = 0))

\* a commit without author line, its identifier in the skip set, was checked
C1_Witness ==
  /\ op.name = "fsck_object"
  /\ op.object = Commit(IdA, FALSE, <<>>, <<>>, CommitNoAuthor)
  /\ InSkipSet(op.object)

FatalIds == {id \in MsgIds : DefaultType(id) = FSCK_FATAL}

\* a call fsck_set_msg_type(options, <fatal kind>, type)
OverridesFatal(o, types) ==
  /\ o.name = "fsck_set_msg_type"
  /\ parse_msg_id(o.msg_id) \in FatalIds
  /\ o.msg_type \in types

\* C2: fsck_set_msg_type() on a kind whose default severity is Fatal, with warn
\* or ignore, ends the process and leaves the options as they were (no table is
\* allocated or written); with error it is accepted; so in a live process the
\* severity of a Fatal kind is never Warn or Ignore.
C2_FatalIsNeverDemoted ==
  [][ /\ (op.name = "idle" /\ OverridesFatal(op', {S_warn, S_ignore}))
         => (died' /\ options' = options /\ arrays' = arrays)
      /\ (op.name = "idle" /\ OverridesFatal(op', {S_error}))
         => (~died' /\ fsck_msg_type(parse_msg_id(op'.msg_id), options') = FSCK_ERROR)
      /\ ~died' => \A id \in FatalIds :
                      fsck_msg_type(id, options') \in {FSCK_FATAL, FSCK_ERROR} ]_vars

\* a demotion was refused after a table had been allocated by an accepted override
C2_Witness ==
  /\ died
  /\ OverridesFatal(op, {S_warn, S_ignore})
  /\ options.msg_type # <<>>
  /\ \E id \in FatalIds : options.msg_type[id + 1] = FSCK_ERROR

\* the one call a diagnostic of kind id on object, let through as msg_type, makes
SinkCall(object, msg_type, id) == [object |-> object, msg_type |-> msg_type, id |-> id]

\* C3: at report time, with the strict flag set and no override applied to a
\* Warn-default kind k, a diagnostic of kind k reaches the sink as Error; with an
\* override for k its most recent override decides; this in whatever order the
\* strict flag was set and fsck_set_msg_type() was called for other kinds.
C3_StrictPromotesWarnings ==
  (/\ op.name = "report"
   /\ options.strict
   /\ DefaultType(op.id) = FSCK_WARN
   /\ ~InSkipSet(op.object))
    => calls = IF overrides[op.id] = 0 THEN <<SinkCall(op.object, FSCK_ERROR, op.id)>>
               ELSE IF overrides[op.id] = FSCK_IGNORE THEN <<>>
               ELSE <<SinkCall(op.object, overrides[op.id], op.id)>>

IsTagWithoutTagger(o) ==
  /\ o.name = "fsck_object"
  /\ ~o.object.null
  /\ o.object.type = OBJ_TAG
  /\ o.object.stored.buf = TagNoTagger

\* C4: with no override for it, a diagnostic of an Info-default kind is
\* suppressed, report() making no call to the sink and returning 0 (so a tag
\* without tagger line yields no call under the default configuration); once
\* the kind is overridden to warn, the same input yields exactly one call to
\* the sink, with severity Warn.
C4_InfoIsSuppressedByDefault ==
  /\ (/\ op.name = "report"
      /\ DefaultType(op.id) = FSCK_INFO
      /\ ~InSkipSet(op.object))
       => /\ overrides[op.id] = 0 => (calls = <<>> /\ ret = 0)
          /\ overrides[op.id] = FSCK_WARN
               => calls = <<SinkCall(op.object, FSCK_WARN, op.id)>>
  /\ (IsTagWithoutTagger(op) /\ ~InSkipSet(op.object))
       => LET id == FSCK_MSG("MISSING_TAGGER_ENTRY")
          IN /\ overrides[id] = 0 => calls = <<>>
             /\ overrides[id] = FSCK_WARN
                  => calls = <<SinkCall(op.object, FSCK_WARN, id)>>

-----------------------------------------------------------------------------
(* The host walking objects: fsck_walk() runs callback by callback, the     *)
(* callback's return value being the host's choice at each invocation.      *)

MaxEntries == 3
MaxParents == 3

\* what the host's callback returns
WalkRets == {-2, -1, 0, 1, 2}

\* the identifier of the j-th child of a walked object
WalkOid(j) == [i \in 1..RawSz |-> IF i = RawSz THEN j ELSE 0]

WalkModes == {M_dir, M_644, M_lnk, M_gitlink, M_blk}

WalkTrees ==
  UNION { { Tree(IdA, [j \in 1..n |-> Entry(m[j], <<"a">>, WalkOid(j))]) :
              m \in [1..n -> WalkModes] } : n \in 0..MaxEntries }

WalkCommits ==
  { Commit(IdA, FALSE, [j \in 1..n |-> WalkOid(j)], <<>>, <<>>) : n \in 0..MaxParents }

WalkTags == { Tag(IdA, FALSE, NoData) }

\* an object whose parse_tree(), parse_commit() or parse_tag() fails
Unparsed(obj) == [obj EXCEPT !.parsed = FALSE]

WalkObjects ==
  {NoObject, Blob(IdA), [null |-> FALSE, type |-> OBJ_ANY, oid |-> IdA]}
  \cup WalkTrees \cup WalkCommits \cup WalkTags
  \cup {Unparsed(Tree(IdA, <<>>)), Unparsed(Tag(IdA, FALSE, NoData))}

\* FSCK_OPTIONS_DEFAULT: no table, not strict, no skip set, the default sink
InitDefault ==
  /\ options = FsckOptions(FALSE, NULL, "fsck_error_function")
  /\ overrides = NoOverrides
  /\ InitCommon

WalkCall ==
  /\ op.name = "idle"
  /\ \E obj \in WalkObjects :
        /\ walk' = fsck_walk(obj)
        /\ op' = [name |-> "fsck_walk", object |-> obj]
  /\ UNCHANGED <<options, arrays, died, calls, ret, overrides>>

WalkTreeStep ==
  /\ walk.pc = "tree"
  /\ \E r \in WalkRets : walk' = fsck_walk_tree_step(walk, op.object, r)
  /\ UNCHANGED <<options, arrays, died, op, calls, ret, overrides>>

WalkCommitStep ==
  /\ walk.pc = "commit"
  /\ \E r \in WalkRets : walk' = fsck_walk_commit_step(walk, op.object, r)
  /\ UNCHANGED <<options, arrays, died, op, calls, ret, overrides>>

WalkTagStep ==
  /\ walk.pc = "tag"
  /\ \E r \in WalkRets : walk' = fsck_walk_tag_step(walk, op.object, r)
  /\ UNCHANGED <<options, arrays, died, op, calls, ret, overrides>>

\* the host takes the value fsck_walk() returned
WalkReturn ==
  /\ walk.pc = "done"
  /\ walk' = WalkIdle
  /\ op' = Idle
  /\ UNCHANGED <<options, arrays, died, calls, ret, overrides>>

NextWalk == WalkCall \/ WalkTreeStep \/ WalkCommitStep \/ WalkTagStep \/ WalkReturn

SpecWalk == InitDefault /\ [][NextWalk]_vars

WalkingA(type) ==
  /\ op.name = "fsck_walk"
  /\ ~op.object.null
  /\ op.object.type = type
  /\ op.object.parsed

WalkedA(type) == WalkingA(type) /\ walk.pc = "done"

\* the children of a commit in the order claimed: its tree, then its parents
CommitChildren(commit) ==
  <<[child |-> commit.tree, type |-> OBJ_TREE]>>
  \o [j \in 1..Len(commit.parents) |-> [child |-> commit.parents[j], type |-> OBJ_COMMIT]]

\* the first non-zero result among the invocations, 0 when there is none
FirstNonZero(log) ==
  IF \A l \in 1..Len(log) : log[l].result = 0 THEN 0
  ELSE log[CHOOSE l \in 1..Len(log) :
             /\ log[l].result # 0
             /\ \A k \in 1..(l - 1) : log[k].result = 0].result

\* C5: fsck_walk() on a commit invokes the callback on the tree (as a TREE) and
\* then on the parents in list order (as COMMITs), each once at most; a
\* negative return is the last invocation and is the value returned; with no
\* negative return every child is visited and the value returned is the first
\* non-zero return in invocation order, or 0.
C5_CommitWalkOrder ==
  WalkingA(OBJ_COMMIT) =>
    LET children == CommitChildren(op.object)
        log == walk.log
        n == Len(log)
    IN /\ n <= Len(children)
       /\ \A l \in 1..n : /\ log[l].child = children[l].child
                          /\ log[l].type = children[l].type
       /\ \A l \in 1..(n - 1) : log[l].result >= 0
       /\ walk.pc = "done" =>
            /\ n >= 1
            /\ IF log[n].result < 0 THEN walk.R = log[n].result
               ELSE n = Len(children) /\ walk.R = FirstNonZero(log)

\* a commit with two parents or more was walked to the end, the tree's
\* callback returning 0 and two later ones different non-zero values
C5_Witness ==
  /\ WalkedA(OBJ_COMMIT)
  /\ Len(walk.log) = 1 + Len(op.object.parents)
  /\ Len(walk.log) >= 3
  /\ walk.log[1].result = 0
  /\ walk.log[2].result = 2
  /\ walk.log[3].result = 1
  /\ walk.R = 2

EntryMode(e) == get_mode(e.modetext)
IsCallable(e) == S_ISDIR(EntryMode(e)) \/ S_ISREG(EntryMode(e)) \/ S_ISLNK(EntryMode(e))
IsBadMode(e) == ~IsCallable(e) /\ ~S_ISGITLINK(EntryMode(e))

\* the callback was invoked on exactly the directory, regular and symlink
\* entries among the first upto entries, in order, as TREE or BLOB
WalkedEntries(tree, log, upto) ==
  LET es == tree.entries
      K == {j \in 1..upto : IsCallable(es[j])}
      pos(j) == Cardinality({k \in K : k <= j})
  IN /\ Len(log) = Cardinality(K)
     /\ \A j \in K :
          /\ log[pos(j)].child = es[j].oid
          /\ log[pos(j)].type = IF S_ISDIR(EntryMode(es[j])) THEN OBJ_TREE ELSE OBJ_BLOB

NoNegativeReturn(log) == \A l \in 1..Len(log) : log[l].result >= 0

BadEntries(tree) == {j \in 1..Len(tree.entries) : IsBadMode(tree.entries[j])}

-----------------------------------------------------------------------------
(* The host checking trees of two entries *)

MaxNameLen == 2

\* bytes below '/', '/' itself and above it
NameBytes == {".", "/", "a"}

Names == UNION { [1..n -> NameBytes] : n \in 1..MaxNameLen }

PairModes == {M_dir, M_644}

TreePair(mode1, name1, mode2, name2) ==
  Tree(IdB, <<Entry(mode1, name1, IdC), Entry(mode2, name2, IdC)>>)

CheckTreePair ==
  /\ Ready
  /\ \E mode1 \in PairModes, mode2 \in PairModes, name1 \in Names, name2 \in Names :
        LET tree == TreePair(mode1, name1, mode2, name2)
        IN /\ Finish(fsck_object(Run, tree, NoData))
           /\ op' = [name |-> "fsck_tree", object |-> tree]
  /\ UNCHANGED <<died, walk, overrides>>

NextTree == CheckTreePair \/ Return

SpecTree == InitDefault /\ [][NextTree]_vars

\* the sort key of an entry: the name, with '/' appended for a directory
Key(e) == e.name \o (IF S_ISDIR(EntryMode(e)) THEN <<"/">> ELSE <<>>)

\* a is strictly smaller than b in unsigned bytewise lexicographic order
LexLess(a, b) ==
  \E i \in 1..Len(b) :
     /\ i <= Len(a) + 1
     /\ \A k \in 1..(i - 1) : a[k] = b[k]
     /\ (i = Len(a) + 1 \/ Ord(a[i]) < Ord(b[i]))

IsPrefix(a, b) == Len(a) <= Len(b) /\ SubSeq(b, 1, Len(a)) = a

Reported(id) == \E l \in 1..Len(calls) : calls[l].id = id

-----------------------------------------------------------------------------
(* The host checking commits serialised from their parts *)

GoodIdents ==
  { GoodIdent,
    Ident(<<"A"," ","U">>, <<>>, <<"0">>, <<"-","0","1","3","0">>) }

Bodies == { <<>>, <<"m", LF>>, S_committer \o GoodIdent, <<"m", NUL, LF, LF, "x">> }

Removals == {"none", "tree", "author", "committer"}

\* tree line, parent lines, author line, committer line, blank line, body,
\* with the line named by removed left out
CommitBuffer(parents, author, committer, body, removed) ==
  LET Lines[j \in 0..Len(parents)] ==
        IF j = 0 THEN <<>> ELSE Lines[j - 1] \o ParentLine(parents[j])
  IN (IF removed = "tree" THEN <<>> ELSE TreeLine(IdC))
     \o Lines[Len(parents)]
     \o (IF removed = "author" THEN <<>> ELSE S_author \o author)
     \o (IF removed = "committer" THEN <<>> ELSE S_committer \o committer)
     \o <<LF>> \o body

CheckCommit ==
  /\ Ready
  /\ \E n \in 0..MaxParents, author \in GoodIdents, committer \in GoodIdents,
        body \in Bodies, removed \in Removals, in_memory \in BOOLEAN :
        LET parents == [j \in 1..n |-> WalkOid(j)]
            buffer == CommitBuffer(parents, author, committer, body, removed)
            commit == Commit(IdB, FALSE, parents, <<>>, buffer)
        IN /\ Finish(fsck_object(Run, commit, IF in_memory THEN Data(buffer) ELSE NoData))
           /\ op' = [name |-> "fsck_commit", object |-> commit, removed |-> removed]
  /\ UNCHANGED <<died, walk, overrides>>

NextCommit == CheckCommit \/ Return

SpecCommit == InitDefault /\ [][NextCommit]_vars

\* C8: under the default policy and sink, without graft and with a tree in
\* memory, a commit serialised as tree line, as many parent lines as parents
\* in memory, author line, committer line, blank line and body passes
\* fsck_object() with no diagnostic and 0 returned; with the tree, author or
\* committer line removed there is exactly one diagnostic, MISSING_TREE,
\* MISSING_AUTHOR or MISSING_COMMITTER respectively.
C8_WellFormedCommit ==
  op.name = "fsck_commit" =>
    IF op.removed = "none" THEN calls = <<>> /\ ret = 0
    ELSE calls = << SinkCall(op.object, FSCK_ERROR,
                       IF op.removed = "tree" THEN FSCK_MSG("MISSING_TREE")
                       ELSE IF op.removed = "author" THEN FSCK_MSG("MISSING_AUTHOR")
                       ELSE FSCK_MSG("MISSING_COMMITTER")) >>

\* a commit with two parents or more was checked with its author line removed
C8_Witness ==
  /\ op.name = "fsck_commit"
  /\ op.removed = "author"
  /\ Len(op.object.parents) >= 2
  /\ Reported(FSCK_MSG("MISSING_AUTHOR"))

-----------------------------------------------------------------------------
(* The host configuring severities with fsck_set_msg_types()                *)

toupper(c) == IF Ord(c) >= 97 /\ Ord(c) <= 122 THEN Printable[Ord(c) - 32 - 31] ELSE c

Cases == {"lower", "upper", "capital"}

\* text in lower case, in upper case, or with its first letter in upper case
InCase(text, case) ==
  [i \in 1..Len(text) |->
     IF case = "upper" \/ (case = "capital" /\ i = 1) THEN toupper(text[i])
     ELSE tolower(text[i])]

RECURSIVE WithoutUnderscores(_)
WithoutUnderscores(text) ==
  IF text = <<>> THEN <<>>
  ELSE IF Head(text) = "_" THEN WithoutUnderscores(Tail(text))
  ELSE <<Head(text)>> \o WithoutUnderscores(Tail(text))

\* the kinds the host names: a fatal kind and one that is not
TokenKinds == { FSCK_MSG("NUL_IN_HEADER"), FSCK_MSG("BAD_FILEMODE") }

SeverityName(type) ==
  IF type = FSCK_ERROR THEN S_error ELSE IF type = FSCK_WARN THEN S_warn ELSE S_ignore

\* what the stack holds where init_skiplist() has its buffer
Stacks == { [i \in 1..BufSz |-> NUL], SkipLine(IdB) }

SetMsgTypes ==
  /\ Ready
  /\ \E id \in TokenKinds, type \in {FSCK_ERROR, FSCK_WARN, FSCK_IGNORE},
        kind_case \in Cases, type_case \in Cases, underscores \in BOOLEAN,
        sep \in {"=", ":"}, lead \in {<<>>, <<",">>}, stack \in Stacks :
        LET id_string == msg_id_info[id + 1].id_string
            kind == InCase(IF underscores THEN id_string ELSE WithoutUnderscores(id_string),
                           kind_case)
            values == lead \o kind \o <<sep>> \o InCase(SeverityName(type), type_case)
            st == fsck_set_msg_types(St, values, stack)
        IN /\ options' = st.options
           /\ arrays' = st.arrays
           /\ died' = st.died
           /\ overrides' = IF st.died THEN overrides ELSE [overrides EXCEPT ![id] = type]
           /\ op' = [name |-> "fsck_set_msg_types", values |-> values, id |-> id,
                     type |-> type, underscores |-> underscores,
                     kind_case |-> kind_case, type_case |-> type_case]
  /\ UNCHANGED <<calls, ret, walk>>

NextTypes == SetMsgTypes \/ Return

SpecTypes == InitDefault /\ [][NextTypes]_vars

\* a severity a kind may be given: any for a kind not fatal, error for a fatal one
AllowedSeverity(id, type) == DefaultType(id) = FSCK_FATAL => type = FSCK_ERROR

\* C9: a token <kind>=<severity> or <kind>:<severity> is recognised whatever
\* the case of the two names and with or without the underscores of the kind
\* name: for a severity allowed for the kind the call is accepted and leaves
\* the kind's effective severity equal to it, as the token in lower case
\* without underscores does.
C9_TokensIgnoreCaseAndUnderscores ==
  (op.name = "fsck_set_msg_types" /\ AllowedSeverity(op.id, op.type))
    => (~died /\ fsck_msg_type(op.id, options) = op.type)

-----------------------------------------------------------------------------
(* The host checking identity lines, with the default sink or its own       *)

NamePart == { <<"A", " ">>, <<"A">>, <<>>, <<"A", ">", " ">> }
EmailPart == { <<"<", "a", "@", "x", ">">>, <<"<", "a">>, <<"a">> }
DatePart ==
  { <<"1", "2">>, <<"0">>, <<"0", "1", "2">>, <<>>, <<"x">>, <<"+", "1", "2">>,
    <<" ", "1", "2">>, <<"-", "1">>, LONG_MAX, LONG_MIN_ABS, ULONG_MAX \o <<"0">> }
ZonePart == { <<"+", "0", "0", "0", "0">>, <<"-", "0", "1", "3", "0">>,
              <<"0", "0", "0", "0">>, <<"+", "0", "0", "0">>, <<>> }
Gap == { <<" ">>, <<>> }
LineEnd == { <<LF>>, <<>> }

IdentLines ==
  { name \o email \o gap1 \o date \o gap2 \o zone \o end :
      name \in NamePart, email \in EmailPart, gap1 \in Gap, date \in DatePart,
      gap2 \in Gap, zone \in ZonePart, end \in LineEnd }

InitIdent ==
  /\ \E sink \in {"fsck_error_function", "host"} : options = FsckOptions(FALSE, NULL, sink)
  /\ overrides = NoOverrides
  /\ InitCommon

CheckIdent ==
  /\ Ready
  /\ \E line \in IdentLines :
        /\ Finish(fsck_ident(Run, line, 1, Blob(IdB)).R)
        /\ op' = [name |-> "fsck_ident", line |-> line, object |-> Blob(IdB)]
  /\ UNCHANGED <<died, walk, overrides>>

NextIdent == CheckIdent \/ Return

SpecIdent == InitIdent /\ [][NextIdent]_vars

\* the first index from on at which s holds a byte of set, or one past its end
FirstOf(s, from, set) ==
  LET hits == {i \in from..Len(s) : s[i] \in set}
  IN IF hits = {} THEN Len(s) + 1 ELSE CHOOSE i \in hits : \A j \in hits : i <= j

\* the first index from on at which s holds no digit
DigitsEnd(s, from) ==
  LET stops == {i \in from..Len(s) : ~isdigit(s[i])}
  IN IF stops = {} THEN Len(s) + 1 ELSE CHOOSE i \in stops : \A j \in stops : i <= j

\* the first condition of the identity-line table that the line meets, in
\* table order; the date is the run of digits after the email's "> "
TableKind(line) ==
  LET lt == FirstOf(line, 1, {"<", ">", LF})
      gt == FirstOf(line, lt + 1, {"<", ">", LF})
      d == gt + 2
      e == DigitsEnd(line, d)
      date == SubSeq(line, d, e - 1)
      z == e + 1
  IN IF At(line, 1) = "<" THEN "MISSING_NAME_BEFORE_EMAIL"
     ELSE IF At(line, lt) = ">" THEN "BAD_NAME"
     ELSE IF At(line, lt) # "<" THEN "MISSING_EMAIL"
     ELSE IF At(line, lt - 1) # " " THEN "MISSING_SPACE_BEFORE_EMAIL"
     ELSE IF At(line, gt) # ">" THEN "BAD_EMAIL"
     ELSE IF At(line, gt + 1) # " " THEN "MISSING_SPACE_BEFORE_DATE"
     ELSE IF Len(date) > 1 /\ date[1] = "0" THEN "ZERO_PADDED_DATE"
     ELSE IF ~DecLE(strip_zeros(date), LONG_MAX) THEN "BAD_DATE_OVERFLOW"
     ELSE IF date = <<>> \/ At(line, e) # " " THEN "BAD_DATE"
     ELSE IF \/ At(line, z) \notin {"+", "-"}
             \/ \E k \in 1..4 : ~isdigit(At(line, z + k))
             \/ At(line, z + 5) # LF
     THEN "BAD_TIMEZONE"
     ELSE "none"

\* C10: fsck_ident() emits at most one diagnostic per identity line: none,
\* returning 0, for a line <name> SP <email> SP <unixtime> SP [+-]dddd LF, and
\* otherwise exactly the kind of the first condition of the identity-line
\* table that the line meets, returning what the sink returned.
C10_IdentFollowsTable ==
  op.name = "fsck_ident" =>
    LET kind == TableKind(op.line)
    IN IF kind = "none" THEN calls = <<>> /\ ret = 0
       ELSE /\ calls = <<SinkCall(op.object, FSCK_ERROR, FSCK_MSG(kind))>>
            /\ ret = error_func(options.error_func, op.object, FSCK_ERROR, FSCK_MSG(kind))

-----------------------------------------------------------------------------
(* The header scanner on every short buffer of a commit or a tag *)

MaxHeaderLen == 4
HeaderBytes == {NUL, LF, "a"}

RECURSIVE SeqsUpTo(_, _)
\* the sequences over set of length at most n
SeqsUpTo(set, n) ==
  IF n = 0 THEN {<<>>}
  ELSE LET shorter == SeqsUpTo(set, n - 1)
       IN shorter \cup {Append(b, x) : b \in {c \in shorter : Len(c) = n - 1}, x \in set}

HeaderBuffers == SeqsUpTo(HeaderBytes, MaxHeaderLen)

\* a commit and a tag the caller's skip set does not list, and a commit it lists
HeaderObjects ==
  { Commit(IdB, FALSE, <<>>, <<>>, <<>>), Tag(IdB, FALSE, NoData),
    Commit(IdA, FALSE, <<>>, <<>>, <<>>) }

InitHeaders ==
  /\ \E strict \in BOOLEAN, skiplist \in {NULL, "caller"},
        sink \in {"fsck_error_function", "host"} :
        options = FsckOptions(strict, skiplist, sink)
  /\ overrides = NoOverrides
  /\ InitCommon

VerifyHeaders ==
  /\ Ready
  /\ \E buffer \in HeaderBuffers, obj \in HeaderObjects :
        /\ Finish(verify_headers(Run, buffer, obj))
        /\ op' = [name |-> "verify_headers", buffer |-> buffer, object |-> obj]
  /\ UNCHANGED <<died, walk, overrides>>

NextHeaders == VerifyHeaders \/ Return

SpecHeaders == InitHeaders /\ [][NextHeaders]_vars

\* the indices at which an LF LF pair starts
Separators(b) == {i \in 1..(Len(b) - 1) : b[i] = LF /\ b[i + 1] = LF}

\* a NUL before the first LF LF pair, or anywhere when there is no pair
NulBeforeSeparator(b) ==
  IF Separators(b) = {} THEN \E j \in 1..Len(b) : b[j] = NUL
  ELSE \E j \in 1..Len(b) : b[j] = NUL /\ \A i \in Separators(b) : j < i

\* the buffer holds LF LF, or is not empty and ends with LF
Terminated(b) == Separators(b) # {} \/ (Len(b) > 0 /\ b[Len(b)] = LF)

\* the one diagnostic of a Fatal kind, as the sink receives it
HeaderDiagnostic(kind) ==
  /\ calls = <<SinkCall(op.object, FSCK_ERROR, FSCK_MSG(kind))>>
  /\ ret = error_func(options.error_func, op.object, FSCK_ERROR, FSCK_MSG(kind))

-----------------------------------------------------------------------------
(* The host loading skip lists into options values of its own making *)

MaxSkipLen == 4

SkipPaths == DOMAIN Files \cup {<<"x">>}

InitSkiplist ==
  /\ \E skiplist \in {NULL, "caller"} :
        options = FsckOptions(FALSE, skiplist, "fsck_error_function")
  /\ overrides = NoOverrides
  /\ InitCommon

\* the host takes another options value, with or without a skip set of its own
NewOptions ==
  /\ Ready
  /\ \E skiplist \in {NULL, "caller"} :
        options' = FsckOptions(FALSE, skiplist, "fsck_error_function")
  /\ op' = [name |-> "options"]
  /\ UNCHANGED <<arrays, died, calls, ret, walk, overrides>>

\* fsck_set_msg_types(&options, "skiplist=<path>")
LoadSkiplist ==
  /\ Ready
  /\ Len(arrays.static.sha1) < MaxSkipLen
  /\ \E path \in SkipPaths, stack \in Stacks :
        LET st == fsck_set_msg_types(St, S_skiplist \o <<"=">> \o path, stack)
        IN /\ options' = st.options
           /\ arrays' = st.arrays
           /\ died' = st.died
           /\ op' = [name |-> "skiplist", path |-> path, supplied |-> options.skiplist]
  /\ UNCHANGED <<calls, ret, walk, overrides>>

NextSkiplist == NewOptions \/ LoadSkiplist \/ Return

SpecSkiplist == InitSkiplist /\ [][NextSkiplist]_vars

\* the identifiers a file lists, one line of 40 hex digits and LF each
ListedIds(path) ==
  { id \in {IdA, IdB, IdC} :
      \E k \in 0..(Len(Files[path]) \div BufSz) :
         /\ (k + 1) * BufSz <= Len(Files[path])
         /\ SubSeq(Files[path], k * BufSz + 1, (k + 1) * BufSz) = SkipLine(id) }

\* the identifiers a skip set holds
Members(array) == { array.sha1[i] : i \in 1..Len(array.sha1) }

\* C12: after a successful skiplist=<path> load on an options value, every
\* identifier the file lists is a member of that options value's skip set:
\* the process-wide default set when the caller supplied none, and the
\* caller's own set, still referenced by the options, when it supplied one;
\* this after any sequence of loads over options values of both sorts.
C12_ListedIdsAreMembers ==
  (op.name = "skiplist" /\ ~died) =>
    /\ options.skiplist = (IF op.supplied = NULL THEN "static" ELSE op.supplied)
    /\ ListedIds(op.path) \subseteq Members(arrays[options.skiplist])
====
